---- MODULE Spec2Model ----
(***************************************************************************)
(* Model of the two django-liveview handlers of this repository:           *)
(*   say_hello     (apps/core/liveview_components/hello.py)                *)
(*   send_message  (apps/core/liveview_components/chat.py)                 *)
(* Each connection (consumer) runs one handler invocation at a time, one   *)
(* source statement per step.  The two collaborators render_to_string and  *)
(* send are external: a call is logged in calls[c] and either returns or   *)
(* raises.                                                                 *)
(***************************************************************************)
EXTENDS Integers, Sequences, FiniteSets, TLC

VARIABLES pc, handler, content, message, username, name, now, html,
          calls, err, prev, clock

vars == <<pc, handler, content, message, username, name, now, html,
          calls, err, prev, clock>>

(* ------------------------------ bounds --------------------------------- *)

\* longest string a client sends in a form field
MaxLen == 3

\* connections of the interleaved specification
NumConns == 2

(* --------------------------- Python values ----------------------------- *)

\* characters of the strings a client sends; " " is whitespace
Chars == {" ", "a"}

Whitespace == {" "}

Strings(n) == UNION {[1..k -> Chars] : k \in 0..n}

\* a key that is missing from a mapping
Absent == [t |-> "absent", s |-> <<>>, n |-> 0]

PyNone == [t |-> "none", s |-> <<>>, n |-> 0]

PyStr(s) == [t |-> "str", s |-> s, n |-> 0]

PyInt(i) == [t |-> "int", s |-> <<>>, n |-> i]

\* a local variable that has not been assigned in this invocation
Unbound == [t |-> "unbound", s |-> <<>>, n |-> 0]

\* the result of an expression that raised AttributeError
AttributeError == [t |-> "AttributeError", s |-> <<>>, n |-> 0]

\* the value of content["form"]: a dict with optional keys, or not a dict
FormDict(m, u, nm) == [t |-> "dict", message |-> m, username |-> u, name |-> nm]

FormOther(t) == [t |-> t, message |-> Absent, username |-> Absent, name |-> Absent]

\* the {} literal
EmptyDict == FormDict(Absent, Absent, Absent)

\* content.get("form", {})
ContentGetForm(cont) == IF cont.form.t = "absent" THEN EmptyDict ELSE cont.form

\* "obj.get(key) or default": an empty value is replaced by the default too
DictGetOrDefault(obj, key, default) ==
  IF obj.t # "dict" THEN AttributeError
  ELSE IF obj[key].t = "absent" \/ obj[key] = [t |-> "str", s |-> <<>>, n |-> 0]
       THEN default ELSE obj[key]

\* obj.get(key, default): AttributeError unless obj is a dict; the default
\* only when the key is missing
DictGet(obj, key, default) ==
  IF obj.t # "dict" THEN AttributeError
  ELSE IF obj[key].t = "absent" THEN default ELSE obj[key]

RECURSIVE LStrip(_)
LStrip(s) == IF s # <<>> /\ Head(s) \in Whitespace THEN LStrip(Tail(s)) ELSE s

RECURSIVE RStrip(_)
RStrip(s) ==
  IF s # <<>> /\ s[Len(s)] \in Whitespace THEN RStrip(SubSeq(s, 1, Len(s) - 1)) ELSE s

\* strip() left out: the characters as sent
StripNone(s) == s

\* str.strip() on the characters
Strip(s) == RStrip(LStrip(s))

\* v.strip(): AttributeError unless v is a str
StrStrip(v) ==
  IF v.t = "str" THEN PyStr(Strip(v.s)) ELSE AttributeError

\* "not message" for a str
IsFalsy(v) == v.s = <<>>

DigitChars == <<"0", "1", "2", "3", "4", "5", "6", "7", "8", "9">>

Digit(d) == DigitChars[d + 1]

\* str(i) for a small non-negative int
IntRepr(i) == IF i < 10 THEN <<Digit(i)>> ELSE <<Digit(i \div 10), Digit(i % 10)>>

\* the text an f-string substitutes for {v}
Format(v) ==
  CASE v.t = "str" -> v.s
    [] v.t = "none" -> <<"N", "o", "n", "e">>
    [] v.t = "int" -> IntRepr(v.n)

(* ------------------------------ clock ---------------------------------- *)

SecondsPerDay == 24 * 60 * 60

\* datetime.now(): the wall clock as seconds since midnight
Hour(t) == t \div 3600

Minute(t) == (t % 3600) \div 60

Second(t) == t % 60

\* %-H style: no zero padding
Pad2NoZero(i) == IF i < 10 THEN <<Digit(i)>> ELSE <<Digit(i \div 10), Digit(i % 10)>>

\* a %H, %M or %S field: two digits, zero-padded
Pad2(i) == <<Digit(i \div 10), Digit(i % 10)>>

\* strftime("%H:%M:%S")
Strftime(t) == Pad2(Hour(t)) \o <<":">> \o Pad2(Minute(t)) \o <<":">> \o Pad2(Second(t))

(* --------------------------- collaborators ----------------------------- *)

\* the HTML render_to_string returns: determined by template and context
RenderToString(template, ctx) == [template |-> template, ctx |-> ctx]

\* a logged call of render_to_string
RenderCall(template, ctx, ok) ==
  [fn |-> "render", template |-> template, ctx |-> ctx, ok |-> ok]

\* a logged call of send(consumer, patch, **kwargs)
SendCall(consumer, patch, kwargs, ok) ==
  [fn |-> "send", consumer |-> consumer, patch |-> patch,
   kwargs |-> kwargs, ok |-> ok]

\* the call asks for delivery to every connection of the room
IsBroadcast(k) == "broadcast" \in DOMAIN k.kwargs /\ k.kwargs.broadcast

(* ------------------------------ state ---------------------------------- *)

Conns == DOMAIN pc

Finished == {"returned", "raised"}

InitFor(C, T) ==
  /\ pc = [c \in C |-> "idle"]
  /\ handler = [c \in C |-> "none"]
  /\ content = [c \in C |-> [form |-> FormOther("absent")]]
  /\ message = [c \in C |-> Unbound]
  /\ username = [c \in C |-> Unbound]
  /\ name = [c \in C |-> Unbound]
  /\ now = [c \in C |-> 0]
  /\ html = [c \in C |-> Unbound]
  /\ calls = [c \in C |-> <<>>]
  /\ err = [c \in C |-> "none"]
  /\ prev = [c \in C |-> "none"]
  /\ clock \in T

\* the framework dispatches event h with payload cont to its handler; the
\* locals of the new invocation are unbound
Dispatch(c, h, cont) ==
  /\ pc[c] = "idle"
  /\ pc' = [pc EXCEPT ![c] = IF h = "send_message" THEN "sm9" ELSE "sh8"]
  /\ handler' = [handler EXCEPT ![c] = h]
  /\ content' = [content EXCEPT ![c] = cont]
  /\ UNCHANGED <<message, username, name, now, html, calls, err, prev, clock>>

\* the handler has returned or raised: its locals are gone and control is
\* back in the framework, which waits for the next event; prev remembers
\* how the invocation ended
Complete(c) ==
  /\ pc[c] \in Finished
  /\ pc' = [pc EXCEPT ![c] = "idle"]
  /\ prev' = [prev EXCEPT ![c] = pc[c]]
  /\ handler' = [handler EXCEPT ![c] = "none"]
  /\ content' = [content EXCEPT ![c] = [form |-> FormOther("absent")]]
  /\ message' = [message EXCEPT ![c] = Unbound]
  /\ username' = [username EXCEPT ![c] = Unbound]
  /\ name' = [name EXCEPT ![c] = Unbound]
  /\ html' = [html EXCEPT ![c] = Unbound]
  /\ now' = [now EXCEPT ![c] = 0]
  /\ calls' = [calls EXCEPT ![c] = <<>>]
  /\ err' = [err EXCEPT ![c] = "none"]
  /\ UNCHANGED clock

(* --------------------------- send_message ------------------------------ *)

DefaultMessage == PyStr(<<>>)

DefaultUsernameAscii == PyStr(<<"A", "n", "o", "n", "i", "m", "o">>)

DefaultUsername == PyStr(<<"A", "n", "ô", "n", "i", "m", "o">>)

\* chat.py line 9
SendMessage_GetMessage(c) ==
  /\ pc[c] = "sm9"
  /\ LET v == StrStrip(DictGet(ContentGetForm(content[c]), "message", DefaultMessage))
     IN IF v = AttributeError
        THEN /\ pc' = [pc EXCEPT ![c] = "raised"]
             /\ err' = [err EXCEPT ![c] = "AttributeError"]
             /\ UNCHANGED message
        ELSE /\ pc' = [pc EXCEPT ![c] = "sm10"]
             /\ message' = [message EXCEPT ![c] = v]
             /\ UNCHANGED err
  /\ UNCHANGED <<handler, content, username, name, now, html, calls, prev, clock>>

\* chat.py line 10
SendMessage_GetUsername(c) ==
  /\ pc[c] = "sm10"
  /\ LET v == StrStrip(DictGet(ContentGetForm(content[c]), "username", DefaultUsername))
     IN IF v = AttributeError
        THEN /\ pc' = [pc EXCEPT ![c] = "raised"]
             /\ err' = [err EXCEPT ![c] = "AttributeError"]
             /\ UNCHANGED username
        ELSE /\ pc' = [pc EXCEPT ![c] = "sm12"]
             /\ username' = [username EXCEPT ![c] = v]
             /\ UNCHANGED err
  /\ UNCHANGED <<handler, content, message, name, now, html, calls, prev, clock>>

\* chat.py lines 12-13
SendMessage_CheckEmpty(c) ==
  /\ pc[c] = "sm12"
  /\ pc' = [pc EXCEPT ![c] = IF IsFalsy(message[c]) THEN "returned" ELSE "sm16"]
  /\ UNCHANGED <<handler, content, message, username, name, now, html, calls, err, prev, clock>>

ChatContext(u, m, t) == [username |-> u.s, message |-> m.s, timestamp |-> Strftime(t)]

\* the render failure caught instead of propagated: the send still happens
SendMessage_RenderSwallow(c) ==
  /\ pc[c] = "sm16"
  /\ \E ok \in BOOLEAN :
       LET ctx == ChatContext(username[c], message[c], clock)
       IN /\ now' = [now EXCEPT ![c] = clock]
          /\ calls' = [calls EXCEPT ![c] = Append(@, RenderCall("chat_message.html", ctx, ok))]
          /\ html' = [html EXCEPT ![c] =
                        IF ok THEN RenderToString("chat_message.html", ctx) ELSE PyStr(<<>>)]
          /\ pc' = [pc EXCEPT ![c] = "sm23"]
          /\ UNCHANGED err
  /\ UNCHANGED <<handler, content, message, username, name, prev, clock>>

\* chat.py lines 16-20; a failure of render_to_string propagates
SendMessage_Render(c) ==
  /\ pc[c] = "sm16"
  /\ \E ok \in BOOLEAN :
       LET ctx == ChatContext(username[c], message[c], clock)
       IN /\ now' = [now EXCEPT ![c] = clock]
          /\ calls' = [calls EXCEPT ![c] = Append(@, RenderCall("chat_message.html", ctx, ok))]
          /\ IF ok
             THEN /\ html' = [html EXCEPT ![c] = RenderToString("chat_message.html", ctx)]
                  /\ pc' = [pc EXCEPT ![c] = "sm23"]
                  /\ UNCHANGED err
             ELSE /\ pc' = [pc EXCEPT ![c] = "raised"]
                  /\ err' = [err EXCEPT ![c] = "render"]
                  /\ UNCHANGED html
  /\ UNCHANGED <<handler, content, message, username, name, prev, clock>>

\* append left out: the patch replaces the chat log
ChatPatchReplace(h) == [target |-> "#chat-messages", html |-> h]

ChatPatch(h) == [target |-> "#chat-messages", html |-> h, append |-> TRUE]

\* the keyword arguments of the send call in send_message
ChatKwargs == [broadcast |-> TRUE]

\* chat.py lines 23-27; a failure of send propagates
SendMessage_Send(c) ==
  /\ pc[c] = "sm23"
  /\ \E ok \in BOOLEAN :
       /\ calls' = [calls EXCEPT ![c] =
                      Append(@, SendCall(c, ChatPatch(html[c]), ChatKwargs, ok))]
       /\ pc' = [pc EXCEPT ![c] = IF ok THEN "returned" ELSE "raised"]
       /\ err' = [err EXCEPT ![c] = IF ok THEN "none" ELSE "send"]
  /\ UNCHANGED <<handler, content, message, username, name, now, html, prev, clock>>

(* ----------------------------- say_hello ------------------------------- *)

DefaultName == PyStr(<<"W", "o", "r", "l", "d">>)

\* hello.py line 8
SayHello_GetName(c) ==
  /\ pc[c] = "sh8"
  /\ LET v == DictGet(ContentGetForm(content[c]), "name", DefaultName)
     IN IF v = AttributeError
        THEN /\ pc' = [pc EXCEPT ![c] = "raised"]
             /\ err' = [err EXCEPT ![c] = "AttributeError"]
             /\ UNCHANGED name
        ELSE /\ pc' = [pc EXCEPT ![c] = "sh10"]
             /\ name' = [name EXCEPT ![c] = v]
             /\ UNCHANGED err
  /\ UNCHANGED <<handler, content, message, username, now, html, calls, prev, clock>>

\* the name trimmed before it is interpolated
GreetingStripped(v) ==
  <<"H", "e", "l", "l", "o", ",", " ">>
    \o (IF v.t = "str" THEN Strip(v.s) ELSE Format(v)) \o <<"!">>

\* the display name of a chat invocation kept at module level and
\* preferred over the name of the greeting
GreetingLeak(v) ==
  LET bound == {d \in DOMAIN username : username[d].t = "str"}
  IN <<"H", "e", "l", "l", "o", ",", " ">>
       \o (IF bound # {} THEN username[CHOOSE d \in bound : TRUE].s ELSE Format(v))
       \o <<"!">>

\* f"Hello, {name}!"
Greeting(v) == <<"H", "e", "l", "l", "o", ",", " ">> \o Format(v) \o <<"!">>

HelloContext(v) == [message |-> Greeting(v)]

\* hello.py lines 10-12
SayHello_Render(c) ==
  /\ pc[c] = "sh10"
  /\ \E ok \in BOOLEAN :
       LET ctx == HelloContext(name[c])
       IN /\ calls' = [calls EXCEPT ![c] = Append(@, RenderCall("hello_message.html", ctx, ok))]
          /\ IF ok
             THEN /\ html' = [html EXCEPT ![c] = RenderToString("hello_message.html", ctx)]
                  /\ pc' = [pc EXCEPT ![c] = "sh14"]
                  /\ UNCHANGED err
             ELSE /\ pc' = [pc EXCEPT ![c] = "raised"]
                  /\ err' = [err EXCEPT ![c] = "render"]
                  /\ UNCHANGED html
  /\ UNCHANGED <<handler, content, message, username, name, now, prev, clock>>

\* the chat handler's append flag copied into the greeting patch
HelloPatchAppend(h) == [target |-> "#greeting", html |-> h, append |-> TRUE]

HelloPatch(h) == [target |-> "#greeting", html |-> h]

\* the send call in say_hello passes no keyword argument
HelloKwargs == <<>>

\* hello.py lines 14-17
SayHello_Send(c) ==
  /\ pc[c] = "sh14"
  /\ \E ok \in BOOLEAN :
       /\ calls' = [calls EXCEPT ![c] =
                      Append(@, SendCall(c, HelloPatch(html[c]), HelloKwargs, ok))]
       /\ pc' = [pc EXCEPT ![c] = IF ok THEN "returned" ELSE "raised"]
       /\ err' = [err EXCEPT ![c] = IF ok THEN "none" ELSE "send"]
  /\ UNCHANGED <<handler, content, message, username, name, now, html, prev, clock>>

(* ------------------------------ inputs --------------------------------- *)

SampleInts == {7}

\* what a client can put under one key of form
FieldValues ==
  {Absent, PyNone} \cup {PyInt(i) : i \in SampleInts} \cup {PyStr(s) : s \in Strings(MaxLen)}

\* a key the dispatched handler does not read
OtherValues == {Absent, PyStr(<<"a">>)}

NonDictForms == {FormOther(t) : t \in {"absent", "none", "str", "int"}}

Contents(h) ==
  {[form |-> f] : f \in NonDictForms \cup
     (IF h = "send_message"
      THEN {FormDict(m, u, nm) : m \in FieldValues, u \in FieldValues, nm \in OtherValues}
      ELSE {FormDict(m, u, nm) : m \in OtherValues, u \in OtherValues, nm \in FieldValues})}

Handlers == {"send_message", "say_hello"}

\* wall-clock times sampled around the field boundaries
ClockSamples == {0, 9 * 3600 + 5 * 60 + 7, 12 * 3600, SecondsPerDay - 1}

\* payloads of the interleaved specification
RoomContents(h) ==
  IF h = "send_message"
  THEN {[form |-> FormDict(m, u, Absent)] :
          m \in {Absent, PyStr(<<"a">>)}, u \in {Absent, PyStr(<<" ", "a">>)}}
  ELSE {[form |-> FormDict(Absent, Absent, nm)] : nm \in {Absent, PyStr(<<"a">>)}}

\* payload of the clock specification
ClockContents == {[form |-> FormDict(PyStr(<<"a">>), Absent, Absent)]}

(* -------------------------- specifications ----------------------------- *)

DispatchAny ==
  \E c \in Conns :
    /\ pc[c] = "idle"
    /\ \E h \in Handlers : \E cont \in Contents(h) : Dispatch(c, h, cont)

DispatchRoom ==
  \E c \in Conns :
    /\ pc[c] = "idle"
    /\ \E h \in Handlers : \E cont \in RoomContents(h) : Dispatch(c, h, cont)

DispatchChat ==
  \E c \in Conns :
    /\ pc[c] = "idle"
    /\ \E cont \in ClockContents : Dispatch(c, "send_message", cont)

\* the wall clock moves to another sampled time
ClockJump == 
  /\ \E t \in ClockSamples : t # clock /\ clock' = t
  /\ UNCHANGED <<pc, handler, content, message, username, name, now, html, calls, err, prev>>

SendMessageStep ==
  \E c \in Conns :
    \/ SendMessage_GetMessage(c)
    \/ SendMessage_GetUsername(c)
    \/ SendMessage_CheckEmpty(c)
    \/ SendMessage_Render(c)
    \/ SendMessage_Send(c)

CompleteAny == \E c \in Conns : Complete(c)

SayHelloStep ==
  \E c \in Conns :
    \/ SayHello_GetName(c)
    \/ SayHello_Render(c)
    \/ SayHello_Send(c)

Init == InitFor({1}, ClockSamples)

Next == DispatchAny \/ SendMessageStep \/ SayHelloStep \/ CompleteAny \/ ClockJump

\* one connection, every payload
Spec == Init /\ [][Next]_vars

InitRoom == InitFor(1..NumConns, {9 * 3600 + 5 * 60 + 7})

NextRoom == DispatchRoom \/ SendMessageStep \/ SayHelloStep \/ CompleteAny

\* several connections whose invocations interleave statement by statement
SpecRoom == InitRoom /\ [][NextRoom]_vars

InitClock == InitFor({1}, 0..(SecondsPerDay - 1))

NextClock == DispatchChat \/ SendMessageStep \/ CompleteAny

\* send_message at every second of the day
SpecClock == InitClock /\ [][NextClock]_vars

(* ------------------------- claim vocabulary ---------------------------- *)

Renders(c) == {i \in DOMAIN calls[c] : calls[c][i].fn = "render"}

Sends(c) == {i \in DOMAIN calls[c] : calls[c][i].fn = "send"}

AllWhitespace(s) == \A i \in DOMAIN s : s[i] \in Whitespace

\* t is s without its leading and trailing whitespace
IsTrimOf(t, s) ==
  \E i \in 1..(Len(s) + 1) : \E j \in 0..Len(s) :
    /\ t = SubSeq(s, i, j)
    /\ AllWhitespace(SubSeq(s, 1, i - 1))
    /\ AllWhitespace(SubSeq(s, j + 1, Len(s)))
    /\ t = <<>> \/ (t[1] \notin Whitespace /\ t[Len(t)] \notin Whitespace)

\* form is a mapping, or missing altogether
WellFormed(cont) == cont.form.t \in {"absent", "dict"}

\* form.<key> as the client sent it (Absent when the key is missing)
Raw(cont, key) == cont.form[key]

IsStr(v) == v.t = "str"

\* the trimmed message is non-empty
HasText(cont) ==
  /\ cont.form.t = "dict"
  /\ IsStr(Raw(cont, "message"))
  /\ ~AllWhitespace(Raw(cont, "message").s)

\* the trimmed message is empty: key absent, form absent, "" or whitespace
NoText(cont) ==
  /\ WellFormed(cont)
  /\ \/ Raw(cont, "message") = Absent
     \/ IsStr(Raw(cont, "message")) /\ AllWhitespace(Raw(cont, "message").s)

\* form is a mapping without the username key
NoUsername(cont) == cont.form.t = "dict" /\ Raw(cont, "username") = Absent

\* form.username is present and is "" or whitespace only
BlankUsername(cont) ==
  /\ cont.form.t = "dict"
  /\ IsStr(Raw(cont, "username"))
  /\ AllWhitespace(Raw(cont, "username").s)

Running(c, h) == handler[c] = h

\* the one send call of a finished invocation
TheSend(c) == calls[c][CHOOSE i \in Sends(c) : TRUE]

(* ------------------------------ claims --------------------------------- *)

\* C1: while send_message handles a payload whose trimmed message is empty
\* (key absent, form absent, "" or whitespace only), it has called neither
\* render_to_string nor send, whatever the username is.
C1_EmptyMessageNoCalls ==
  \A c \in Conns :
    (Running(c, "send_message") /\ NoText(content[c])) => calls[c] = <<>>

\* a whitespace-only message has been handled to the end without a call
C1_Witness ==
  \E c \in Conns :
    /\ Running(c, "send_message") /\ pc[c] = "returned"
    /\ IsStr(Raw(content[c], "message"))
    /\ Len(Raw(content[c], "message").s) >= 2
    /\ AllWhitespace(Raw(content[c], "message").s)
    /\ IsStr(Raw(content[c], "username"))
    /\ calls[c] = <<>>

\* C2: send_message delivers at most once; a delivery is a broadcast to
\* "#chat-messages" with append = TRUE whose html is chat_message.html
\* rendered with the trimmed message and the trimmed username; and an
\* invocation with a non-empty trimmed message that returns has delivered
\* exactly once.
C2_OneBroadcastAppend ==
  \A c \in Conns :
    Running(c, "send_message") =>
      /\ Cardinality(Sends(c)) <= 1
      /\ \A i \in Sends(c) :
           LET k == calls[c][i]
           IN /\ IsBroadcast(k)
              /\ DOMAIN k.patch = {"target", "html", "append"}
              /\ k.patch.target = "#chat-messages"
              /\ k.patch.append = TRUE
              /\ HasText(content[c])
              /\ k.patch.html.template = "chat_message.html"
              /\ IsTrimOf(k.patch.html.ctx.message, Raw(content[c], "message").s)
              /\ IsStr(Raw(content[c], "username")) =>
                   IsTrimOf(k.patch.html.ctx.username, Raw(content[c], "username").s)
      /\ pc[c] = "returned" /\ HasText(content[c]) => Cardinality(Sends(c)) = 1

\* the message " a " with username " a" has been broadcast as "a" by "a"
C2_Witness ==
  \E c \in Conns :
    /\ Running(c, "send_message") /\ pc[c] = "returned"
    /\ Raw(content[c], "message") = PyStr(<<" ", "a", " ">>)
    /\ Raw(content[c], "username") = PyStr(<<" ", "a">>)
    /\ Cardinality(Sends(c)) = 1
    /\ TheSend(c).patch.html.ctx.message = <<"a">>
    /\ TheSend(c).patch.html.ctx.username = <<"a">>
    /\ IsBroadcast(TheSend(c))

\* C3: say_hello delivers at most once; a delivery goes to the originating
\* connection without the broadcast flag, targets "#greeting" and carries
\* no append key; an invocation that returns has delivered exactly once.
C3_OneUnicastReplace ==
  \A c \in Conns :
    Running(c, "say_hello") =>
      /\ Cardinality(Sends(c)) <= 1
      /\ \A i \in Sends(c) :
           LET k == calls[c][i]
           IN /\ "broadcast" \notin DOMAIN k.kwargs
              /\ k.consumer = c
              /\ DOMAIN k.patch = {"target", "html"}
              /\ k.patch.target = "#greeting"
              /\ k.patch.html.template = "hello_message.html"
      /\ pc[c] = "returned" => Cardinality(Sends(c)) = 1

\* a greeting has been delivered and the handler has returned
C3_Witness ==
  \E c \in Conns :
    /\ Running(c, "say_hello") /\ pc[c] = "returned"
    /\ Cardinality(Sends(c)) = 1
    /\ TheSend(c).ok /\ ~IsBroadcast(TheSend(c))

HelloWorld == <<"H", "e", "l", "l", "o", ",", " ", "W", "o", "r", "l", "d", "!">>

\* C4: the text say_hello renders is "Hello, X!" when form.name is the
\* string X, untrimmed, and "Hello, World!" when form has no name key or
\* form itself is missing; past line 8 the render has happened.
C4_GreetingText ==
  \A c \in Conns :
    (Running(c, "say_hello") /\ WellFormed(content[c])) =>
      /\ \A i \in Renders(c) :
           LET g == calls[c][i].ctx.message
               nm == Raw(content[c], "name")
           IN /\ IsStr(nm) => g = <<"H", "e", "l", "l", "o", ",", " ">> \o nm.s \o <<"!">>
              /\ nm = Absent => g = HelloWorld
      /\ pc[c] \in {"sh14", "returned"} => Renders(c) # {}

\* a payload without form has been greeted as World
C4_Witness ==
  \E c \in Conns :
    /\ Running(c, "say_hello") /\ pc[c] = "returned"
    /\ content[c].form.t = "absent"
    /\ Cardinality(Sends(c)) = 1
    /\ TheSend(c).patch.html.ctx.message = HelloWorld

\* a name with surrounding whitespace has been greeted as sent
C4_WitnessName ==
  \E c \in Conns :
    /\ Running(c, "say_hello") /\ pc[c] = "returned"
    /\ Raw(content[c], "name") = PyStr(<<" ", "a", " ">>)
    /\ Cardinality(Sends(c)) = 1
    /\ TheSend(c).patch.html.ctx.message =
         <<"H", "e", "l", "l", "o", ",", " ", " ", "a", " ", "!">>

\* C5: when form has no username key, send_message renders the chat line
\* with "Anônimo" as username, and with a non-empty trimmed message the
\* render has happened once line 12 is passed.
C5_AnonymousDefault ==
  \A c \in Conns :
    (Running(c, "send_message") /\ NoUsername(content[c])) =>
      /\ \A i \in Renders(c) :
           calls[c][i].ctx.username = <<"A", "n", "ô", "n", "i", "m", "o">>
      /\ pc[c] \in {"sm23", "returned"} /\ HasText(content[c]) => Renders(c) # {}

\* a message without username has been broadcast under the default name
C5_Witness ==
  \E c \in Conns :
    /\ Running(c, "send_message") /\ pc[c] = "returned"
    /\ Raw(content[c], "username") = Absent
    /\ Cardinality(Sends(c)) = 1
    /\ Len(TheSend(c).patch.html.ctx.username) = 7

\* C6: neither handler raises on a missing or malformed field, and
\* say_hello greets World when name is not a string.
C6_NoErrorOnMalformed ==
  \A c \in Conns :
    /\ err[c] # "AttributeError"
    /\ Running(c, "say_hello") /\ ~IsStr(Raw(content[c], "name")) =>
         \A i \in Renders(c) : calls[c][i].ctx.message = HelloWorld

\* C7: per invocation render_to_string is called at most once and send at
\* most once, a send comes after a render that returned, a failed render
\* ends the invocation with the error and without a send, and a failed
\* send ends it with the error.
C7_FailurePropagates ==
  \A c \in Conns :
    /\ Cardinality(Renders(c)) <= 1
    /\ Cardinality(Sends(c)) <= 1
    /\ \A i \in Sends(c) : \E j \in Renders(c) : j < i /\ calls[c][j].ok
    /\ \A j \in Renders(c) :
         ~calls[c][j].ok => Sends(c) = {} /\ pc[c] = "raised" /\ err[c] = "render"
    /\ \A i \in Sends(c) :
         ~calls[c][i].ok => pc[c] = "raised" /\ err[c] = "send"

\* render_to_string has failed in send_message
C7_Witness ==
  \E c \in Conns :
    /\ Running(c, "send_message") /\ pc[c] = "raised" /\ err[c] = "render"
    /\ Len(calls[c]) = 1 /\ ~calls[c][1].ok

\* send has failed in say_hello after one render
C7_WitnessSend ==
  \E c \in Conns :
    /\ Running(c, "say_hello") /\ pc[c] = "raised" /\ err[c] = "send"
    /\ Len(calls[c]) = 2

\* what an invocation of h alone delivers for payload cont at time t
SoloPatch(h, cont, t) ==
  IF h = "say_hello"
  THEN [target |-> "#greeting",
        html |-> [template |-> "hello_message.html",
                  ctx |-> [message |-> <<"H", "e", "l", "l", "o", ",", " ">>
                             \o (IF Raw(cont, "name") = Absent
                                 THEN <<"W", "o", "r", "l", "d">> ELSE Raw(cont, "name").s)
                             \o <<"!">>]]]
  ELSE [target |-> "#chat-messages",
        html |-> [template |-> "chat_message.html",
                  ctx |-> [username |-> IF Raw(cont, "username") = Absent
                                        THEN <<"A", "n", "ô", "n", "i", "m", "o">>
                                        ELSE Strip(Raw(cont, "username").s),
                           message |-> Strip(Raw(cont, "message").s),
                           timestamp |-> Strftime(t)]],
        append |-> TRUE]

\* C8: the patch an invocation delivers is the one the same handler would
\* deliver alone for the same payload and clock reading, whatever ran
\* before it on its connection and whatever runs on the others; two
\* invocations with the same handler, payload and clock deliver the same.
C8_NoStateBetweenCalls ==
  /\ \A c \in Conns : \A i \in Sends(c) :
       /\ calls[c][i].patch = SoloPatch(handler[c], content[c], now[c])
       /\ IsBroadcast(calls[c][i]) = (handler[c] = "send_message")
  /\ \A c \in Conns : \A d \in Conns :
       (/\ handler[c] = handler[d]
        /\ content[c] = content[d]
        /\ now[c] = now[d]
        /\ Sends(c) # {}
        /\ Sends(d) # {}) => TheSend(c).patch = TheSend(d).patch

\* a connection whose previous invocation raised has delivered a chat line
\* while another connection is inside a handler with a different payload
C8_Witness ==
  \E c \in Conns : \E d \in Conns \ {c} :
    /\ prev[c] = "raised" /\ Running(c, "send_message") /\ Sends(c) # {}
    /\ pc[d] \in {"sm12", "sm16", "sm23", "sh10", "sh14"}
    /\ content[d] # content[c]

\* a connection whose previous invocation was a silent no-op has been greeted
\* while another connection is inside send_message
C8_WitnessNoOp ==
  \E c \in Conns : \E d \in Conns \ {c} :
    /\ prev[c] = "returned" /\ Running(c, "say_hello") /\ Sends(c) # {}
    /\ pc[d] \in {"sm16", "sm23"}

IsDigit(ch) == \E d \in 0..9 : DigitChars[d + 1] = ch

DigitVal(ch) == CHOOSE d \in 0..9 : DigitChars[d + 1] = ch

TwoDigits(a, b) == 10 * DigitVal(a) + DigitVal(b)

\* C9: the timestamp send_message passes to the template is eight
\* characters, digits with ":" in places 3 and 6, hours in 0..23, minutes
\* and seconds in 0..59, and reads as the wall-clock time of the call.
C9_TimestampFormat ==
  \A c \in Conns : \A i \in Renders(c) :
    Running(c, "send_message") =>
      LET ts == calls[c][i].ctx.timestamp
      IN /\ Len(ts) = 8
         /\ ts[3] = ":" /\ ts[6] = ":"
         /\ \A k \in {1, 2, 4, 5, 7, 8} : IsDigit(ts[k])
         /\ TwoDigits(ts[1], ts[2]) \in 0..23
         /\ TwoDigits(ts[4], ts[5]) \in 0..59
         /\ TwoDigits(ts[7], ts[8]) \in 0..59
         /\ 3600 * TwoDigits(ts[1], ts[2]) + 60 * TwoDigits(ts[4], ts[5])
              + TwoDigits(ts[7], ts[8]) = now[c]

\* a chat line has been rendered at 09:05:07
C9_Witness ==
  \E c \in Conns : \E i \in Renders(c) :
    /\ Running(c, "send_message")
    /\ calls[c][i].ctx.timestamp = <<"0", "9", ":", "0", "5", ":", "0", "7">>
    /\ now[c] = 9 * 3600 + 5 * 60 + 7

\* a chat line has been rendered in the last second of the day
C9_WitnessLast ==
  \E c \in Conns : \E i \in Renders(c) :
    /\ Running(c, "send_message")
    /\ calls[c][i].ctx.timestamp = <<"2", "3", ":", "5", "9", ":", "5", "9">>

\* C10: when form.username is present and empty or whitespace only, the
\* chat line is rendered with the empty string as username, and with a
\* non-empty trimmed message the invocation that returns has delivered it.
C10_BlankUsernameKept ==
  \A c \in Conns :
    (Running(c, "send_message") /\ BlankUsername(content[c])) =>
      /\ \A i \in Renders(c) : calls[c][i].ctx.username = <<>>
      /\ pc[c] = "returned" /\ HasText(content[c]) =>
           /\ Cardinality(Sends(c)) = 1
           /\ TheSend(c).patch.html.ctx.username = <<>>

\* a message with username "" has been broadcast under the empty name
C10_Witness ==
  \E c \in Conns :
    /\ Running(c, "send_message") /\ pc[c] = "returned"
    /\ Raw(content[c], "username") = PyStr(<<>>)
    /\ Cardinality(Sends(c)) = 1
    /\ TheSend(c).patch.html.ctx.username = <<>>

\* a message with username " " has been broadcast under the empty name
C10_WitnessSpace ==
  \E c \in Conns :
    /\ Running(c, "send_message") /\ pc[c] = "returned"
    /\ Raw(content[c], "username") = PyStr(<<" ">>)
    /\ Cardinality(Sends(c)) = 1
    /\ TheSend(c).patch.html.ctx.username = <<>>

====
